---- MODULE Spec2Model ----
(***************************************************************************)
(* cpupower-gui (Qt port): the per-CPU settings reconciliation of          *)
(* CpupowerGuiWindow (src/cpupower_gui/window.py).                         *)
(*                                                                         *)
(* The window keeps one CpuSettings per CPU (editable fields and the       *)
(* baseline last read from hardware), lets the user edit them, and the     *)
(* Apply handler turns the edits into calls to the privileged helper.      *)
(* The helper owns the live hardware state; each of its mutating calls     *)
(* returns 0, a non-zero code, or raises (D-Bus error).                    *)
(*                                                                         *)
(* Every handler runs to completion on the single GUI thread, so each      *)
(* handler is one action.                                                  *)
(***************************************************************************)
EXTENDS Integers, Sequences, FiniteSets, TLC

\* ---------------------------------------------------------------- bounds
NumCpus == 2
MaxOps == 3

\* ------------------------------------------------------------- constants
\* _on_freq_changed: fmax = min(fmin + 10, fmax_hw)
FreqStep == 10

CPUs == 0 .. (NumCpus - 1)

\* The processes of the application that are started.
NumInstances == 2
Procs == 1 .. NumInstances

\* The socket file SOCKET_NAME is not there, or it is one left behind by a
\* process that is gone; otherwise it is the file of the process that made it.
NoFile == -1
StaleFile == 0

None == "None"

\* conf.governors / conf.energy_prefs: the ordered lists a CPU offers.
Governors == <<"performance", "powersave">>
EnergyPrefs == <<"default", "power">>

Range(s) == {s[i] : i \in DOMAIN s}

Min2(a, b) == IF a < b THEN a ELSE b
Max2(a, b) == IF a > b THEN a ELSE b

\* conf.hw_lims, in MHz.
hw_lims(cpu) == IF cpu = 0 THEN <<800, 3200>> ELSE <<1000, 2800>>

\* The values a user enters in a frequency spin box of CPU cpu (the spin
\* box range is the CPU's hardware range, set by _update_sliders).
FreqInputs(cpu) == {hw_lims(cpu)[1], 2000, hw_lims(cpu)[2]}

\* HELPER.cpu_allowed_offline: CPU 0 cannot be taken offline.
cpu_allowed_offline(cpu) == cpu # 0

\* HELPER.get_cpus_available, as used by the online_cpus property.
online_cpus == CPUs

\* The codes a failing helper call returns.  The helper's contract is "0 on
\* success, non-zero on failure": -1 and a positive errno (EACCES) stand for
\* the non-zero codes.  A raised D-Bus error is the third outcome of a call.
HelperFailCodes == {-1, 13}

HelperResults ==
    {[raised |-> FALSE, val |-> v] : v \in {0} \cup HelperFailCodes}
        \cup {[raised |-> TRUE, val |-> 0]}

WriteOps == {"update_cpu_settings", "update_cpu_governor", "update_cpu_energy_prefs"}
TransitionOps == {"set_cpu_online", "set_cpu_offline"}

\* The results a call can have.  An offline CPU accepts no frequency,
\* governor or energy-preference write, so such a call does not return 0.
\* The window only tests the result of these writes against 0, so one
\* non-zero value stands for all of them; the result of an online/offline
\* transition is used as it is, so it takes every value.
helper_results(h, cpu, op) ==
    IF op \in WriteOps
    THEN {r \in HelperResults :
              r.raised \/ r.val = -1 \/ (r.val = 0 /\ h[cpu].online)}
    ELSE HelperResults

ERRORS ==
    [code \in {-11, -12, -13, -23, -24, -25} |->
        CASE code = -11 -> "Setting governor failed."
          [] code = -12 -> "Setting energy preferences failed."
          [] code = -13 -> "Setting frequencies failed."
          [] code = -23 -> "Setting governor and energy preferences failed."
          [] code = -24 -> "Setting governor and frequencies failed."
          [] code = -25 -> "Setting frequencies and energy preferences failed."]

UnknownError == "Unknown error occurred."
PermissionError == "You don't have permissions to update CPU settings!"

\* ERRORS.get(ret, "Unknown error occurred.")
errors_get(ret) == IF ret \in DOMAIN ERRORS THEN ERRORS[ret] ELSE UnknownError

VARIABLES
    hw,                 \* live hardware, owned by the helper: per CPU
                        \*   online, freqs (kHz), governor, energy_pref
    settings,           \* self.settings: per CPU [cur, baseline]
    active,             \* cpu_combo.currentData()
    toall,              \* toall_btn.isChecked()
    toall_enabled,      \* toall_btn.isEnabled()
    energy_per_cpu,     \* self.energy_per_cpu
    energy_pref_avail,  \* self.energy_pref_avail
    profile,            \* profile_combo.currentData(), None for "No profile"
    apply_btn,          \* apply_btn.isEnabled()
    pass,               \* what the most recent handler did, if it was Apply
    last,               \* the most recent handler, its input and what it found
    fault,              \* an exception left a handler
    ops,                \* handlers run so far
    store,              \* self.conf.profiles: the profile store, by name
    current_freq,       \* the current-frequency column of cpu_model
    port,               \* a profile entry carried from one CPU to another
    inst,               \* the started processes: where each is in main()
    sock_file,          \* the socket file SOCKET_NAME: the process bound to it
    removed_live        \* removeServer deleted the file of a listening process

vars == <<hw, settings, active, toall, toall_enabled, energy_per_cpu,
          energy_pref_avail, profile, apply_btn, pass, last, fault, ops,
          store, current_freq, port, inst, sock_file, removed_live>>

\* The variables of the window and of its hardware.
window_vars == <<hw, settings, active, toall, toall_enabled, energy_per_cpu,
                 energy_pref_avail, profile, apply_btn, pass, last, fault, ops,
                 store, current_freq>>

\* The variables of the start-up of the application's processes.
instance_vars == <<inst, sock_file, removed_live>>

\* ------------------------------------------------- CpuSettings (config)
\* CpuSettings.update_conf: read the CPU's state from hardware (kHz -> MHz)
\* and make it both the editable fields and the baseline.
read_hw(h) ==
    [online      |-> h.online,
     freqs       |-> <<h.freqs[1] \div 1000, h.freqs[2] \div 1000>>,
     governor    |-> h.governor,
     energy_pref |-> h.energy_pref]

update_conf(h) == [cur |-> read_hw(h), baseline |-> read_hw(h)]

\* CpuSettings.reset_conf: the editable fields return to the baseline.
reset_conf(conf) == [conf EXCEPT !.cur = conf.baseline]

\* conf.setting_changed(name) and conf.changed.
setting_changed(conf, name) == conf.cur[name] # conf.baseline[name]

changed(conf) ==
    \E name \in {"online", "freqs", "governor", "energy_pref"} :
        setting_changed(conf, name)

\* conf.freqs = (fmin, fmax): clamped into the CPU's hardware limits.
set_freqs(conf, cpu, freqs) ==
    LET lo == hw_lims(cpu)[1]
        hi == hw_lims(cpu)[2]
        clamp(f) == Max2(lo, Min2(f, hi))
    IN  [conf EXCEPT !.cur.freqs = <<clamp(freqs[1]), clamp(freqs[2])>>]

\* conf.governor = gov: ignored unless the CPU offers that governor.
set_governor(conf, gov) ==
    IF gov \in Range(Governors) THEN [conf EXCEPT !.cur.governor = gov] ELSE conf

\* conf.energy_pref = pref: ignored unless the CPU offers that preference.
set_energy_pref(conf, pref) ==
    IF conf.cur.energy_pref # None /\ pref \in Range(EnergyPrefs)
    THEN [conf EXCEPT !.cur.energy_pref = pref]
    ELSE conf

\* conf.online = value
set_online(conf, value) == [conf EXCEPT !.cur.online = value]

\* conf.freqs_scaled: the frequencies in the helper's unit (kHz).
freqs_scaled(conf) == <<conf.cur.freqs[1] * 1000, conf.cur.freqs[2] * 1000>>

\* ------------------------------------------------------ window helpers
is_conf_changed(sett) == \E cpu \in DOMAIN sett : changed(sett[cpu])

\* changed_cpus without the filter: every CPU of the settings map.
changed_cpus_all(sett) == [i \in 1 .. NumCpus |-> i - 1]

\* [cpu for cpu, conf in self.settings.items() if conf.changed], in the
\* order of the settings map (CPU order).
changed_cpus(sett) ==
    SelectSeq([i \in 1 .. NumCpus |-> i - 1], LAMBDA cpu : changed(sett[cpu]))

\* _update_table: every row is written anew, its current-frequency cell 0.0
blank_freqs == [cpu \in CPUs |-> 0]

_refresh_cpu_settings(sett, h, cpu) == [sett EXCEPT ![cpu] = update_conf(h[cpu])]

load_cpu_settings(sett, h) ==
    [cpu \in CPUs |-> IF cpu \in online_cpus THEN update_conf(h[cpu]) ELSE sett[cpu]]

is_online(h, cpu) == cpu \in CPUs /\ h[cpu].online
is_offline(h, cpu) == cpu \in CPUs /\ ~h[cpu].online

\* ------------------------------------------------------------- helper
\* What a mutating helper call that returns 0 does to the hardware.
helper_write(h, cpu, op, arg) ==
    CASE op = "set_cpu_online"          -> [h EXCEPT ![cpu].online = TRUE]
      [] op = "set_cpu_offline"         -> [h EXCEPT ![cpu].online = FALSE]
      [] op = "update_cpu_settings"     -> [h EXCEPT ![cpu].freqs = arg]
      [] op = "update_cpu_governor"     -> [h EXCEPT ![cpu].governor = arg]
      [] op = "update_cpu_energy_prefs" -> [h EXCEPT ![cpu].energy_pref = arg]

\* One helper call with result r, made in pass state st; code is what the
\* caller adds to ret for this result.  A raised error ends the handler.
helper_call(st, cpu, op, arg, r, code) ==
    [hw    |-> IF ~r.raised /\ r.val = 0 THEN helper_write(st.hw, cpu, op, arg)
               ELSE st.hw,
     ret   |-> IF r.raised THEN st.ret ELSE st.ret + code,
     calls |-> Append(st.calls, [cpu |-> cpu, op |-> op,
                                 live |-> st.hw[cpu].online,
                                 raised |-> r.raised, val |-> r.val]),
     fault |-> r.raised]

\* _set_cpu_online without the cpu_allowed_offline question.
_set_cpu_online_unasked(st, cpu) ==
    LET cpu_online == settings[cpu].cur.online
    IN  IF is_offline(st.hw, cpu) /\ cpu_online
        THEN {helper_call(st, cpu, "set_cpu_online", None, r, r.val) :
                  r \in helper_results(st.hw, cpu, "set_cpu_online")}
        ELSE IF is_online(st.hw, cpu) /\ ~cpu_online
        THEN {helper_call(st, cpu, "set_cpu_offline", None, r, r.val) :
                  r \in helper_results(st.hw, cpu, "set_cpu_offline")}
        ELSE {st}

\* _set_cpu_online deciding by the baseline instead of the live state.
_set_cpu_online_by_baseline(st, cpu) ==
    LET cpu_online == settings[cpu].cur.online
        differs == setting_changed(settings[cpu], "online")
    IN  IF differs /\ cpu_online
        THEN {helper_call(st, cpu, "set_cpu_online", None, r, r.val) :
                  r \in helper_results(st.hw, cpu, "set_cpu_online")}
        ELSE IF differs /\ ~cpu_online /\ cpu_allowed_offline(cpu)
        THEN {helper_call(st, cpu, "set_cpu_offline", None, r, r.val) :
                  r \in helper_results(st.hw, cpu, "set_cpu_offline")}
        ELSE {st}

\* _set_cpu_online: the transition is requested only when the live state
\* disagrees with the target; the helper's own return value is the result.
_set_cpu_online(st, cpu) ==
    LET cpu_online == settings[cpu].cur.online
    IN  IF is_offline(st.hw, cpu) /\ cpu_online
        THEN {helper_call(st, cpu, "set_cpu_online", None, r, r.val) :
                  r \in helper_results(st.hw, cpu, "set_cpu_online")}
        ELSE IF is_online(st.hw, cpu) /\ ~cpu_online /\ cpu_allowed_offline(cpu)
        THEN {helper_call(st, cpu, "set_cpu_offline", None, r, r.val) :
                  r \in helper_results(st.hw, cpu, "set_cpu_offline")}
        ELSE {st}

\* _set_cpu_governor handing the helper's own return value on.
_set_cpu_governor_raw(st, cpu) ==
    LET gov == settings[cpu].cur.governor
    IN  IF gov = None
        THEN {[st EXCEPT !.ret = @ - 1]}
        ELSE {helper_call(st, cpu, "update_cpu_governor", gov, r, r.val) :
                  r \in helper_results(st.hw, cpu, "update_cpu_governor")}

\* _set_cpu_governor
_set_cpu_governor(st, cpu) ==
    LET gov == settings[cpu].cur.governor
    IN  IF gov = None
        THEN {[st EXCEPT !.ret = @ - 1]}
        ELSE {helper_call(st, cpu, "update_cpu_governor", gov, r,
                          IF r.val # 0 THEN -11 ELSE 0) :
                  r \in helper_results(st.hw, cpu, "update_cpu_governor")}

\* _set_cpu_energy_preferences
_set_cpu_energy_preferences(st, cpu) ==
    LET pref == settings[cpu].cur.energy_pref
    IN  IF ~energy_pref_avail
        THEN {st}
        ELSE IF pref = None
        THEN {[st EXCEPT !.ret = @ - 1]}
        ELSE {helper_call(st, cpu, "update_cpu_energy_prefs", pref, r,
                          IF r.val # 0 THEN -12 ELSE 0) :
                  r \in helper_results(st.hw, cpu, "update_cpu_energy_prefs")}

\* _set_cpu_frequencies
_set_cpu_frequencies(st, cpu) ==
    {helper_call(st, cpu, "update_cpu_settings", freqs_scaled(settings[cpu]), r,
                 IF r.val # 0 THEN -13 ELSE 0) :
         r \in helper_results(st.hw, cpu, "update_cpu_settings")}

\* apply_cpu without the "if cpu_online" gate.
apply_cpu_ungated(st, cpu) ==
    LET conf == settings[cpu]
        S1 == _set_cpu_online(st, cpu)
        S2 == UNION {IF ~s.fault /\ setting_changed(conf, "freqs")
                     THEN _set_cpu_frequencies(s, cpu) ELSE {s} : s \in S1}
        S3 == UNION {IF ~s.fault /\ setting_changed(conf, "governor")
                     THEN _set_cpu_governor(s, cpu) ELSE {s} : s \in S2}
        S4 == UNION {IF ~s.fault /\ setting_changed(conf, "energy_pref")
                     THEN _set_cpu_energy_preferences(s, cpu) ELSE {s} : s \in S3}
    IN  S4

\* apply_cpu writing the governor before the frequencies.
apply_cpu_governor_first(st, cpu) ==
    LET conf == settings[cpu]
        cpu_online == conf.cur.online
        S1 == _set_cpu_online(st, cpu)
        S2 == UNION {IF ~s.fault /\ cpu_online /\ setting_changed(conf, "governor")
                     THEN _set_cpu_governor(s, cpu) ELSE {s} : s \in S1}
        S3 == UNION {IF ~s.fault /\ cpu_online /\ setting_changed(conf, "freqs")
                     THEN _set_cpu_frequencies(s, cpu) ELSE {s} : s \in S2}
        S4 == UNION {IF ~s.fault /\ cpu_online /\ setting_changed(conf, "energy_pref")
                     THEN _set_cpu_energy_preferences(s, cpu) ELSE {s} : s \in S3}
    IN  S4

\* apply_cpu writing every dimension of a changed CPU whose target is online.
apply_cpu_all_writes(st, cpu) ==
    LET conf == settings[cpu]
        cpu_online == conf.cur.online
        S1 == _set_cpu_online(st, cpu)
        S2 == UNION {IF ~s.fault /\ cpu_online
                     THEN _set_cpu_frequencies(s, cpu) ELSE {s} : s \in S1}
        S3 == UNION {IF ~s.fault /\ cpu_online
                     THEN _set_cpu_governor(s, cpu) ELSE {s} : s \in S2}
        S4 == UNION {IF ~s.fault /\ cpu_online
                     THEN _set_cpu_energy_preferences(s, cpu) ELSE {s} : s \in S3}
    IN  S4

\* on_apply_clicked, the body of "for cpu in changed_cpus" for one CPU:
\* the set of pass states the helper's results can lead to.  A raised error
\* propagates: nothing after it runs.
apply_cpu(st, cpu) ==
    LET conf == settings[cpu]
        cpu_online == conf.cur.online
        S1 == _set_cpu_online(st, cpu)
        S2 == UNION {IF ~s.fault /\ cpu_online /\ setting_changed(conf, "freqs")
                     THEN _set_cpu_frequencies(s, cpu) ELSE {s} : s \in S1}
        S3 == UNION {IF ~s.fault /\ cpu_online /\ setting_changed(conf, "governor")
                     THEN _set_cpu_governor(s, cpu) ELSE {s} : s \in S2}
        S4 == UNION {IF ~s.fault /\ cpu_online /\ setting_changed(conf, "energy_pref")
                     THEN _set_cpu_energy_preferences(s, cpu) ELSE {s} : s \in S3}
    IN  S4

\* apply_cpus giving up at the first non-zero result.
RECURSIVE apply_cpus_stop(_, _)
apply_cpus_stop(S, cpus) ==
    IF cpus = <<>> THEN S
    ELSE apply_cpus_stop(UNION {IF s.fault \/ s.ret # 0 THEN {s}
                                ELSE apply_cpu(s, Head(cpus)) : s \in S},
                         Tail(cpus))

RECURSIVE apply_cpus(_, _)
apply_cpus(S, cpus) ==
    IF cpus = <<>> THEN S
    ELSE apply_cpus(UNION {IF s.fault THEN {s} ELSE apply_cpu(s, Head(cpus)) : s \in S},
                    Tail(cpus))

\* on_apply_clicked, after the loop: every CPU of the settings map is
\* refreshed, then load_cpu_settings re-creates the CpuSettings.
RECURSIVE refresh_cpus(_, _, _)
refresh_cpus(sett, h, cpus) ==
    IF cpus = <<>> THEN sett
    ELSE refresh_cpus(_refresh_cpu_settings(sett, h, Head(cpus)), h, Tail(cpus))

\* Only the active CPU refreshed, as Refresh does without apply-to-all.
refresh_active_only(sett, h) == _refresh_cpu_settings(sett, h, active)

refresh_after_apply(sett, h) ==
    load_cpu_settings(refresh_cpus(sett, h, [i \in 1 .. NumCpus |-> i - 1]), h)

\* ------------------------------------------------------- profile store
\* The built-in profiles of the configuration: every CPU online over its
\* whole frequency range (stored relative to the range, in percent), with
\* the profile's governor.
BuiltinProfiles ==
    [name \in {"Balanced", "Performance"} |->
        [cpu \in CPUs |->
            [freqs    |-> <<0, 100>>,
             governor |-> IF name = "Balanced" THEN "powersave" ELSE "performance",
             online   |-> TRUE]]]

\* Profiles of the configuration files.  A profile names the CPUs it was
\* written for and, by name, a governor that a CPU may or may not offer:
\* "Partial" leaves out every CPU but CPU 0; "Legacy" gives CPU 0 a governor
\* that no CPU offers and the other CPUs one that they do; "Parked" wants
\* every CPU offline.
CustomProfiles ==
    [name \in {"Partial", "Legacy", "Parked"} |->
        IF name = "Partial"
        THEN [cpu \in {0} |->
                 [freqs |-> <<0, 50>>, governor |-> "powersave", online |-> TRUE]]
        ELSE IF name = "Legacy"
        THEN [cpu \in CPUs |->
                 [freqs    |-> <<50, 100>>,
                  governor |-> IF cpu = 0 THEN "ondemand" ELSE "powersave",
                  online   |-> TRUE]]
        ELSE [cpu \in CPUs |->
                 [freqs |-> <<0, 50>>, governor |-> "powersave", online |-> FALSE]]]

\* A frequency of a CPU as a profile holds it: its place in the CPU's
\* hardware range, in percent.
scale_freq(cpu, f) ==
    LET lo == hw_lims(cpu)[1]
        hi == hw_lims(cpu)[2]
    IN  ((f - lo) * 100) \div (hi - lo)

\* What a profile keeps of one CPU's settings.
profile_entry(cpu, conf) ==
    [freqs    |-> <<scale_freq(cpu, conf.cur.freqs[1]),
                    scale_freq(cpu, conf.cur.freqs[2])>>,
     governor |-> conf.cur.governor,
     online   |-> conf.cur.online]

\* conf.create_profile_from_settings(name, settings): refused under a
\* built-in's name, otherwise the profile of that name is written anew.
create_profile_from_settings(st, name, sett) ==
    IF name \in DOMAIN BuiltinProfiles THEN st
    ELSE [n \in DOMAIN st \cup {name} |->
             IF n = name
             THEN [cpu \in DOMAIN sett |-> profile_entry(cpu, sett[cpu])]
             ELSE st[n]]

\* conf.delete_profile(name): refused for a built-in.
delete_profile(st, name) ==
    IF name \in DOMAIN BuiltinProfiles THEN st
    ELSE [n \in DOMAIN st \ {name} |-> st[n]]

\* ------------------------------------------------------------- history
NoPass == [kind |-> "none", auth |-> None, pre |-> <<>>, calls |-> <<>>,
           ret |-> 0, message |-> ""]

NoLast == [op |-> "none", arg |-> None, pre |-> <<>>]

\* No profile entry is being carried between CPUs.
NoPort == [stage |-> "none", freqs |-> <<>>, entry |-> <<>>, recalled |-> <<>>]

Handler == ops < MaxOps /\ ~fault /\ ops' = ops + 1 /\ UNCHANGED instance_vars

\* ---------------------------------------------------------------- Init
hw_init(cpu, on, epa) ==
    [online      |-> on,
     freqs       |-> <<hw_lims(cpu)[1] * 1000, hw_lims(cpu)[2] * 1000>>,
     governor    |-> Governors[1],
     energy_pref |-> IF epa THEN EnergyPrefs[1] ELSE None]

InitWindow ==
    /\ energy_pref_avail \in BOOLEAN
    /\ \E on \in [CPUs -> BOOLEAN] :
          /\ on[0]
          /\ hw = [cpu \in CPUs |-> hw_init(cpu, on[cpu], energy_pref_avail)]
    /\ settings = [cpu \in CPUs |-> update_conf(hw[cpu])]
    /\ active = 0
    /\ toall = FALSE
    /\ toall_enabled = TRUE
    /\ energy_per_cpu = FALSE
    /\ profile = None
    /\ apply_btn = FALSE
    /\ pass = NoPass
    /\ last = NoLast
    /\ fault = FALSE
    /\ ops = 0
    /\ store = BuiltinProfiles @@ CustomProfiles
    /\ current_freq = blank_freqs

\* No process of the application has been started, and no socket file is
\* there.
NoInstances ==
    /\ inst = [p \in Procs |-> [pc |-> "idle", listening |-> FALSE, shown |-> 0]]
    /\ sock_file = NoFile
    /\ removed_live = FALSE

Init == InitWindow /\ port = NoPort /\ NoInstances

\* ------------------------------------------------------------- handlers
\* What the handler found when it started.
Pre == [settings |-> settings, hw |-> hw, profile |-> profile,
        toall |-> toall, toall_enabled |-> toall_enabled,
        apply_btn |-> apply_btn, energy_per_cpu |-> energy_per_cpu,
        active |-> active, store |-> store, current_freq |-> current_freq]

\* The record of a handler run: which handler, with which input.
Ran(op, arg) == [op |-> op, arg |-> arg, pre |-> Pre]

\* on_cpu_changed -> _update_sliders
on_cpu_changed ==
    /\ Handler
    /\ UNCHANGED <<store, current_freq, port>>
    /\ \E cpu \in CPUs \ {active} : active' = cpu
    /\ apply_btn' = is_conf_changed(settings)
    /\ pass' = NoPass
    /\ last' = Ran("on_cpu_changed", None)
    /\ UNCHANGED <<hw, settings, toall, toall_enabled, energy_per_cpu,
                   energy_pref_avail, profile, fault>>

\* on_cpu_online_toggled: the checkbox is enabled when the active CPU may
\* go offline; only the active CPU's target changes.
on_cpu_online_toggled ==
    /\ Handler
    /\ UNCHANGED <<store, port>>
    /\ current_freq' = blank_freqs
    /\ cpu_allowed_offline(active)
    /\ settings' = [settings EXCEPT
                       ![active] = set_online(@, ~settings[active].cur.online)]
    /\ apply_btn' = is_conf_changed(settings')
    /\ pass' = NoPass
    /\ last' = Ran("on_cpu_online_toggled", None)
    /\ UNCHANGED <<hw, active, toall, toall_enabled, energy_per_cpu,
                   energy_pref_avail, profile, fault>>

\* _update_settings_freqs taking the broadcast branch whatever the toggle.
_update_settings_freqs_all(sett, all, cpu, fmin, fmax) ==
    [c \in DOMAIN sett |-> set_freqs(sett[c], c, <<fmin, fmax>>)]

\* _update_settings_freqs
_update_settings_freqs(sett, all, cpu, fmin, fmax) ==
    IF all
    THEN [c \in DOMAIN sett |-> set_freqs(sett[c], c, <<fmin, fmax>>)]
    ELSE [sett EXCEPT ![cpu] = set_freqs(@, cpu, <<fmin, fmax>>)]

\* _on_freq_changed storing the spin box values as they are.
_on_freq_changed_raw(sett, all, cpu, fmin, fmax) ==
    _update_settings_freqs(sett, all, cpu, fmin, fmax)

\* _on_freq_changed with the spin boxes holding (fmin, fmax)
_on_freq_changed(sett, all, cpu, fmin, fmax) ==
    LET fmax_hw == hw_lims(cpu)[2]
        fmax2 == IF fmin > fmax THEN Min2(fmin + FreqStep, fmax_hw) ELSE fmax
    IN  _update_settings_freqs(sett, all, cpu, fmin, fmax2)

\* on_min_spin_changed / on_min_slider_changed: the user enters a new
\* minimum; the frequency controls are enabled while the CPU's target is
\* online.
on_min_spin_changed ==
    /\ Handler
    /\ UNCHANGED <<store, port>>
    /\ current_freq' = blank_freqs
    /\ settings[active].cur.online
    /\ \E value \in FreqInputs(active) \ {settings[active].cur.freqs[1]} :
          /\ settings' = _on_freq_changed(settings, toall, active, value,
                                          settings[active].cur.freqs[2])
          /\ last' = Ran("on_min_spin_changed", value)
    /\ apply_btn' = is_conf_changed(settings')
    /\ pass' = NoPass
    /\ UNCHANGED <<hw, active, toall, toall_enabled, energy_per_cpu,
                   energy_pref_avail, profile, fault>>

\* on_max_spin_changed / on_max_slider_changed
on_max_spin_changed ==
    /\ Handler
    /\ UNCHANGED <<store, port>>
    /\ current_freq' = blank_freqs
    /\ settings[active].cur.online
    /\ \E value \in FreqInputs(active) \ {settings[active].cur.freqs[2]} :
          /\ settings' = _on_freq_changed(settings, toall, active,
                                          settings[active].cur.freqs[1], value)
          /\ last' = Ran("on_max_spin_changed", value)
    /\ apply_btn' = is_conf_changed(settings')
    /\ pass' = NoPass
    /\ UNCHANGED <<hw, active, toall, toall_enabled, energy_per_cpu,
                   energy_pref_avail, profile, fault>>

\* on_governor_changed without its closing apply_btn.setEnabled(...).
on_governor_changed_btn_kept ==
    /\ Handler
    /\ UNCHANGED <<store, port>>
    /\ current_freq' = blank_freqs
    /\ settings[active].cur.online
    /\ \E gov \in Range(Governors) \ {settings[active].cur.governor} :
          /\ settings' = IF toall
                         THEN [c \in CPUs |-> set_governor(settings[c], gov)]
                         ELSE [settings EXCEPT ![active] = set_governor(@, gov)]
          /\ last' = Ran("on_governor_changed", gov)
    /\ apply_btn' = apply_btn
    /\ pass' = NoPass
    /\ UNCHANGED <<hw, active, toall, toall_enabled, energy_per_cpu,
                   energy_pref_avail, profile, fault>>

\* on_governor_changed: the user picks another governor in gov_combo
on_governor_changed ==
    /\ Handler
    /\ UNCHANGED <<store, port>>
    /\ current_freq' = blank_freqs
    /\ settings[active].cur.online
    /\ \E gov \in Range(Governors) \ {settings[active].cur.governor} :
          /\ settings' = IF toall
                         THEN [c \in CPUs |-> set_governor(settings[c], gov)]
                         ELSE [settings EXCEPT ![active] = set_governor(@, gov)]
          /\ last' = Ran("on_governor_changed", gov)
    /\ apply_btn' = is_conf_changed(settings')
    /\ pass' = NoPass
    /\ UNCHANGED <<hw, active, toall, toall_enabled, energy_per_cpu,
                   energy_pref_avail, profile, fault>>

\* on_energy_pref_changed taking its scope from the apply-to-all toggle.
on_energy_pref_changed_toall ==
    /\ Handler
    /\ UNCHANGED <<store, current_freq, port>>
    /\ energy_pref_avail
    /\ settings[active].cur.online
    /\ \E pref \in Range(EnergyPrefs) \ {settings[active].cur.energy_pref} :
          /\ settings' = IF toall
                         THEN [c \in CPUs |-> set_energy_pref(settings[c], pref)]
                         ELSE [settings EXCEPT ![active] = set_energy_pref(@, pref)]
          /\ last' = Ran("on_energy_pref_changed", pref)
    /\ apply_btn' = is_conf_changed(settings')
    /\ pass' = NoPass
    /\ UNCHANGED <<hw, active, toall, toall_enabled, energy_per_cpu,
                   energy_pref_avail, profile, fault>>

\* on_energy_pref_changed: energy_combo is shown when the feature exists
on_energy_pref_changed ==
    /\ Handler
    /\ UNCHANGED <<store, current_freq, port>>
    /\ energy_pref_avail
    /\ settings[active].cur.online
    /\ \E pref \in Range(EnergyPrefs) \ {settings[active].cur.energy_pref} :
          /\ settings' = IF energy_per_cpu
                         THEN [settings EXCEPT ![active] = set_energy_pref(@, pref)]
                         ELSE [c \in CPUs |-> set_energy_pref(settings[c], pref)]
          /\ last' = Ran("on_energy_pref_changed", pref)
    /\ apply_btn' = is_conf_changed(settings')
    /\ pass' = NoPass
    /\ UNCHANGED <<hw, active, toall, toall_enabled, energy_per_cpu,
                   energy_pref_avail, profile, fault>>

\* on_toall_toggled(checked), the copy made when checked
copy_to_all(sett, cpu) ==
    [c \in DOMAIN sett |->
        set_energy_pref(
            set_online(
                set_governor(set_freqs(sett[c], c, sett[cpu].cur.freqs),
                             sett[cpu].cur.governor),
                sett[cpu].cur.online),
            sett[cpu].cur.energy_pref)]

\* on_toall_toggled without its closing apply_btn.setEnabled(...).
on_toall_toggled_btn_kept ==
    /\ Handler
    /\ UNCHANGED <<store, port>>
    /\ toall_enabled
    /\ toall' = ~toall
    /\ current_freq' = IF toall' THEN blank_freqs ELSE current_freq
    /\ settings' = IF toall' THEN copy_to_all(settings, active) ELSE settings
    /\ apply_btn' = apply_btn
    /\ pass' = NoPass
    /\ last' = Ran("on_toall_toggled", None)
    /\ UNCHANGED <<hw, active, toall_enabled, energy_per_cpu,
                   energy_pref_avail, profile, fault>>

on_toall_toggled ==
    /\ Handler
    /\ UNCHANGED <<store, port>>
    /\ toall_enabled
    /\ toall' = ~toall
    /\ current_freq' = IF toall' THEN blank_freqs ELSE current_freq
    /\ settings' = IF toall' THEN copy_to_all(settings, active) ELSE settings
    /\ apply_btn' = is_conf_changed(settings')
    /\ pass' = NoPass
    /\ last' = Ran("on_toall_toggled", None)
    /\ UNCHANGED <<hw, active, toall_enabled, energy_per_cpu,
                   energy_pref_avail, profile, fault>>

\* on_energy_per_cpu_changed: the preference check box is shown when the
\* feature exists
on_energy_per_cpu_changed ==
    /\ Handler
    /\ UNCHANGED <<store, current_freq, port>>
    /\ energy_pref_avail
    /\ energy_per_cpu' = ~energy_per_cpu
    /\ pass' = NoPass
    /\ last' = Ran("on_energy_per_cpu_changed", None)
    /\ UNCHANGED <<hw, settings, active, toall, toall_enabled,
                   energy_pref_avail, profile, apply_btn, fault>>

\* on_refresh_clicked
on_refresh_clicked ==
    /\ Handler
    /\ UNCHANGED <<store, port>>
    /\ current_freq' = blank_freqs
    /\ settings' = IF toall
                   THEN refresh_cpus(settings, hw, [i \in 1 .. NumCpus |-> i - 1])
                   ELSE _refresh_cpu_settings(settings, hw, active)
    /\ apply_btn' = is_conf_changed(settings')
    /\ pass' = NoPass
    /\ last' = Ran("on_refresh_clicked", None)
    /\ UNCHANGED <<hw, active, toall, toall_enabled, energy_per_cpu,
                   energy_pref_avail, profile, fault>>

\* ------------------------------------------------------------- profiles
\* self.conf.profiles / self.conf.get_profile
profiles == store

\* conf.freqs_scaled = (fmin, fmax): a profile's pair, rescaled into the
\* CPU's hardware range.
set_freqs_scaled(conf, cpu, freqs) ==
    LET lo == hw_lims(cpu)[1]
        hi == hw_lims(cpu)[2]
        abs(p) == lo + ((hi - lo) * p) \div 100
    IN  set_freqs(conf, cpu, <<abs(freqs[1]), abs(freqs[2])>>)

\* The loop of _set_profile_settings giving up at the first CPU that does
\* not offer the profile's governor.
RECURSIVE recall_cpus_abort(_, _, _)
recall_cpus_abort(sett, prof, cpus) ==
    IF cpus = <<>> THEN sett
    ELSE LET cpu == Head(cpus)
             s == prof[cpu]
             c1 == set_freqs_scaled(sett[cpu], cpu, s.freqs)
             c3 == set_online(set_governor(c1, s.governor), s.online)
         IN  IF s.governor \notin Range(Governors) THEN sett
             ELSE recall_cpus_abort([sett EXCEPT ![cpu] = c3], prof, Tail(cpus))

\* _set_profile_settings, the loop over the profile's CPUs
RECURSIVE recall_cpus(_, _, _)
recall_cpus(sett, prof, cpus) ==
    IF cpus = <<>> THEN sett
    ELSE LET cpu == Head(cpus)
             s == prof[cpu]
             c1 == set_freqs_scaled(sett[cpu], cpu, s.freqs)
             c2 == IF s.governor \in Range(Governors)
                   THEN set_governor(c1, s.governor) ELSE c1
             c3 == set_online(c2, s.online)
         IN  recall_cpus(IF cpu \in DOMAIN sett
                         THEN [sett EXCEPT ![cpu] = c3] ELSE sett,
                         prof, Tail(cpus))

\* _set_profile_settings storing the profile's pair through conf.freqs, as
\* if it were in MHz.
_set_profile_settings_unscaled(sett, h, prof) ==
    [cpu \in CPUs |->
        LET conf == load_cpu_settings(sett, h)[cpu]
        IN  IF cpu \in DOMAIN prof
            THEN set_online(set_governor(set_freqs(conf, cpu, prof[cpu].freqs),
                                         prof[cpu].governor),
                            prof[cpu].online)
            ELSE conf]

_set_profile_settings(sett, h, prof) ==
    recall_cpus(load_cpu_settings(sett, h), prof,
                SelectSeq([i \in 1 .. NumCpus |-> i - 1],
                          LAMBDA cpu : cpu \in DOMAIN prof))

\* on_profile_changed with a recall that leaves the apply-to-all toggle alone.
on_profile_changed_toall_kept ==
    /\ Handler
    /\ UNCHANGED <<store, port>>
    /\ current_freq' = blank_freqs
    /\ \E name \in ({None} \cup DOMAIN profiles) \ {profile} :
          /\ profile' = name
          /\ last' = Ran("on_profile_changed", name)
          /\ IF name = None
             THEN /\ toall_enabled' = TRUE
                  /\ toall' = toall
                  /\ settings' = [c \in CPUs |->
                                     reset_conf(load_cpu_settings(settings, hw)[c])]
             ELSE /\ toall_enabled' = toall_enabled
                  /\ toall' = toall
                  /\ settings' = _set_profile_settings(settings, hw, profiles[name])
    /\ apply_btn' = is_conf_changed(settings')
    /\ pass' = NoPass
    /\ UNCHANGED <<hw, active, energy_per_cpu, energy_pref_avail, fault>>

\* on_profile_changed whose "No profile" branch only enables the toggle.
on_profile_changed_no_reset ==
    /\ Handler
    /\ UNCHANGED <<store, port>>
    /\ current_freq' = blank_freqs
    /\ \E name \in ({None} \cup DOMAIN profiles) \ {profile} :
          /\ profile' = name
          /\ last' = Ran("on_profile_changed", name)
          /\ IF name = None
             THEN /\ toall_enabled' = TRUE
                  /\ toall' = toall
                  /\ settings' = settings
             ELSE /\ toall_enabled' = FALSE
                  /\ toall' = FALSE
                  /\ settings' = _set_profile_settings(settings, hw, profiles[name])
    /\ apply_btn' = is_conf_changed(settings')
    /\ pass' = NoPass
    /\ UNCHANGED <<hw, active, energy_per_cpu, energy_pref_avail, fault>>

\* on_profile_changed: the user picks another entry of profile_combo
on_profile_changed ==
    /\ Handler
    /\ UNCHANGED <<store, port>>
    /\ current_freq' = blank_freqs
    /\ \E name \in ({None} \cup DOMAIN profiles) \ {profile} :
          /\ profile' = name
          /\ last' = Ran("on_profile_changed", name)
          /\ IF name = None
             THEN /\ toall_enabled' = TRUE
                  /\ toall' = toall
                  /\ settings' = [c \in CPUs |->
                                     reset_conf(load_cpu_settings(settings, hw)[c])]
             ELSE /\ toall_enabled' = FALSE
                  /\ toall' = FALSE
                  /\ settings' = _set_profile_settings(settings, hw, profiles[name])
    /\ apply_btn' = is_conf_changed(settings')
    /\ pass' = NoPass
    /\ UNCHANGED <<hw, active, energy_per_cpu, energy_pref_avail, fault>>

\* ---------------------------------------------------------------- apply
\* HELPER.isauthorized(): yes, no, or a raised D-Bus error
AuthResults == {"yes", "no", "raise"}

\* The authorization answer ignored.
is_authorized_ignored(auth) == TRUE

\* "if not HELPER.isauthorized(): ... return"
is_authorized(auth) == auth = "yes"

\* "if ret == 0: ... else: error_message(ERRORS.get(ret, ...))"
apply_message(ret) == IF ret = 0 THEN "" ELSE errors_get(ret)

\* on_apply_clicked.  The handler itself does not look at the Apply button
\* or at whether anything is changed.  An exception that leaves it is not
\* caught anywhere: the handler stops where the call raised, and the
\* application with it.
on_apply_clicked ==
    /\ Handler
    /\ UNCHANGED <<store, port>>
    /\ \E auth \in AuthResults :
        LET start == [hw |-> hw, ret |-> 0, calls |-> <<>>, fault |-> FALSE]
        IN
        IF auth = "raise"
        THEN /\ fault' = TRUE
             /\ pass' = [kind |-> "fault", auth |-> auth, pre |-> Pre,
                         calls |-> <<>>, ret |-> 0, message |-> ""]
             /\ UNCHANGED <<hw, settings, toall_enabled, profile, apply_btn,
                            current_freq>>
        ELSE IF ~is_authorized(auth)
        THEN /\ pass' = [kind |-> "denied", auth |-> auth, pre |-> Pre,
                         calls |-> <<>>, ret |-> 0, message |-> PermissionError]
             /\ UNCHANGED <<hw, settings, toall_enabled, profile, apply_btn, fault,
                            current_freq>>
        ELSE \E fin \in apply_cpus({start}, changed_cpus(settings)) :
             IF fin.fault
             THEN /\ fault' = TRUE
                  /\ hw' = fin.hw
                  /\ pass' = [kind |-> "fault", auth |-> auth, pre |-> Pre,
                              calls |-> fin.calls, ret |-> fin.ret, message |-> ""]
                  /\ UNCHANGED <<settings, toall_enabled, profile, apply_btn,
                                 current_freq>>
             ELSE /\ hw' = fin.hw
                  /\ settings' = refresh_after_apply(settings, fin.hw)
                  /\ profile' = None
                  /\ toall_enabled' = IF profile # None THEN TRUE ELSE toall_enabled
                  /\ apply_btn' = IF fin.ret = 0 THEN FALSE
                                  ELSE is_conf_changed(settings')
                  /\ pass' = [kind |-> "done", auth |-> auth, pre |-> Pre,
                              calls |-> fin.calls, ret |-> fin.ret,
                              message |-> apply_message(fin.ret)]
                  /\ current_freq' = blank_freqs
                  /\ fault' = FALSE
    /\ last' = Ran("on_apply_clicked", None)
    /\ UNCHANGED <<active, toall, energy_per_cpu, energy_pref_avail>>

\* ------------------------------------------------- profile management
\* The names the user types into profile_name_entry: a built-in's name and
\* a name of the user's own.
SaveNames == {"Balanced", "Mine"}

\* on_save_profile_clicked: the store is asked to capture the settings, then
\* _update_profile_boxes fills profile_combo anew with its signals blocked,
\* which leaves it on "No profile" without on_profile_changed running.
on_save_profile_clicked ==
    /\ Handler
    /\ \E name \in SaveNames :
          /\ store' = create_profile_from_settings(store, name, settings)
          /\ last' = Ran("on_save_profile_clicked", name)
    /\ profile' = None
    /\ pass' = NoPass
    /\ UNCHANGED <<hw, settings, active, toall, toall_enabled, energy_per_cpu,
                   energy_pref_avail, apply_btn, fault, current_freq, port>>

\* _generate_profiles_list giving every row a delete button.
deletable_profiles_all(st) == DOMAIN st

\* _generate_profiles_list: only the rows of user profiles get a delete
\* button.
deletable_profiles(st) == DOMAIN st \ DOMAIN BuiltinProfiles

\* The rows whose delete button the user would click, if they have one.
DeleteNames == {"Balanced", "Mine", "Partial"}

\* on_delete_profile_clicked(profile_name), the question answered with Ok
on_delete_profile_clicked ==
    /\ Handler
    /\ \E name \in deletable_profiles(store) \cap DeleteNames :
          /\ store' = delete_profile(store, name)
          /\ last' = Ran("on_delete_profile_clicked", name)
    /\ profile' = None
    /\ pass' = NoPass
    /\ UNCHANGED <<hw, settings, active, toall, toall_enabled, energy_per_cpu,
                   energy_pref_avail, apply_btn, fault, current_freq, port>>

\* ---------------------------------------------------------------- timer
\* utils.read_current_freq(cpu): the frequency the CPU runs at (kHz), here
\* the upper end of the range set for it; 0 for a CPU that is offline.
read_current_freq(h, cpu) == IF h[cpu].online THEN h[cpu].freqs[2] ELSE 0

\* _update_current_freq with a full refresh of every CPU in it.
_update_current_freq_refreshing ==
    /\ Handler
    /\ UNCHANGED <<store, port>>
    /\ current_freq' = [cpu \in CPUs |-> read_current_freq(hw, cpu) \div 1000]
    /\ settings' = refresh_cpus(settings, hw, [i \in 1 .. NumCpus |-> i - 1])
    /\ apply_btn' = is_conf_changed(settings')
    /\ pass' = NoPass
    /\ last' = Ran("_update_current_freq", None)
    /\ UNCHANGED <<hw, active, toall, toall_enabled, energy_per_cpu,
                   energy_pref_avail, profile, fault>>

\* _update_current_freq: the callback of freq_timer
_update_current_freq ==
    /\ Handler
    /\ UNCHANGED <<store, port>>
    /\ current_freq' = [cpu \in CPUs |-> read_current_freq(hw, cpu) \div 1000]
    /\ pass' = NoPass
    /\ last' = Ran("_update_current_freq", None)
    /\ UNCHANGED <<hw, settings, active, toall, toall_enabled, energy_per_cpu,
                   energy_pref_avail, profile, apply_btn, fault>>

\* ----------------------------------------------------------------- tray
\* The tray menu is built once, from the profiles of the configuration as
\* they are when the application starts.
tray_profiles == BuiltinProfiles @@ CustomProfiles

\* helper.apply_cpu_profile(profile): the profile written to the hardware,
\* CPU by CPU.
apply_cpu_profile(h, prof) ==
    LET written(cpu) ==
            LET s == prof[cpu]
                lo == hw_lims(cpu)[1]
                hi == hw_lims(cpu)[2]
                abs(p) == (lo + ((hi - lo) * p) \div 100) * 1000
            IN  [h[cpu] EXCEPT
                    !.online = IF cpu_allowed_offline(cpu) THEN s.online ELSE @,
                    !.freqs = <<abs(s.freqs[1]), abs(s.freqs[2])>>,
                    !.governor = IF s.governor \in Range(Governors)
                                 THEN s.governor ELSE @]
    IN  [cpu \in CPUs |-> IF cpu \in DOMAIN prof THEN written(cpu) ELSE h[cpu]]

\* The entries of the tray menu the user picks.
TrayPicks == {"Balanced", "Partial"}

\* TrayApplication.on_apply_profile(profile), with the main window open:
\* every CPU of the window is refreshed from the hardware.
on_apply_profile ==
    /\ Handler
    /\ UNCHANGED <<store, port>>
    /\ \E name \in DOMAIN tray_profiles \cap TrayPicks :
          /\ hw' = apply_cpu_profile(hw, tray_profiles[name])
          /\ last' = Ran("on_apply_profile", name)
    /\ settings' = refresh_cpus(settings, hw', [i \in 1 .. NumCpus |-> i - 1])
    /\ apply_btn' = is_conf_changed(settings')
    /\ current_freq' = blank_freqs
    /\ pass' = NoPass
    /\ UNCHANGED <<active, toall, toall_enabled, energy_per_cpu,
                   energy_pref_avail, profile, fault>>

\* ---------------------------------------------------------- environment
\* The hardware is not the window's alone: a CPU that may go offline can be
\* taken offline or brought back by someone else, which leaves the window's
\* baseline stale until the next refresh.
cpu_hotplug ==
    /\ Handler
    /\ UNCHANGED <<store, current_freq, port>>
    /\ \E cpu \in CPUs :
          /\ cpu_allowed_offline(cpu)
          /\ hw' = [hw EXCEPT ![cpu].online = ~@]
    /\ pass' = NoPass
    /\ last' = Ran("cpu_hotplug", None)
    /\ UNCHANGED <<settings, active, toall, toall_enabled, energy_per_cpu,
                   energy_pref_avail, profile, apply_btn, fault>>

\* ------------------------------------------------- a profile carried over
\* A profile is captured from the settings of one CPU and recalled on a CPU
\* with other hardware limits: the CPU with limits [800, 3200] and the one
\* with limits [1000, 2800].
PortSource == 0
PortTarget == 1

\* The frequencies tried: PortGrid + 1 points spread over the source range.
PortGrid == 12
PortPoints ==
    {hw_lims(PortSource)[1]
        + ((hw_lims(PortSource)[2] - hw_lims(PortSource)[1]) * i) \div PortGrid :
            i \in 0 .. PortGrid}
PortFreqs == {f \in PortPoints \X PortPoints : f[1] <= f[2]}

PortInit ==
    /\ InitWindow
    /\ NoInstances
    /\ port \in {[stage |-> "settings", freqs |-> f, entry |-> <<>>,
                  recalled |-> <<>>] : f \in PortFreqs}

\* on_save_profile_clicked, as far as the source CPU goes: its settings hold
\* the pair, and the profile keeps its entry.
port_capture ==
    /\ port.stage = "settings"
    /\ port' = [port EXCEPT
                   !.stage = "captured",
                   !.entry = create_profile_from_settings(
                                 store, "Mine",
                                 [settings EXCEPT ![PortSource] =
                                     set_freqs(@, PortSource, port.freqs)])
                             ["Mine"][PortSource]]
    /\ UNCHANGED <<hw, settings, active, toall, toall_enabled, energy_per_cpu,
                   energy_pref_avail, profile, apply_btn, pass, last, fault,
                   ops, store, current_freq, inst, sock_file, removed_live>>

\* on_profile_changed -> _set_profile_settings, as far as the target CPU
\* goes, for a profile that holds the entry under the target CPU.
port_recall ==
    /\ port.stage = "captured"
    /\ port' = [port EXCEPT
                   !.stage = "recalled",
                   !.recalled = _set_profile_settings(
                                    settings, hw,
                                    [cpu \in {PortTarget} |-> port.entry])
                                [PortTarget].cur.freqs]
    /\ UNCHANGED <<hw, settings, active, toall, toall_enabled, energy_per_cpu,
                   energy_pref_avail, profile, apply_btn, pass, last, fault,
                   ops, store, current_freq, inst, sock_file, removed_live>>

PortNext == port_capture \/ port_recall

SpecPort == PortInit /\ [][PortNext]_vars

\* ------------------------------------------------------ single instance
\* A QLocalSocket can connect when the file is there and the process bound
\* to it is listening.
can_connect == sock_file \in Procs /\ inst[sock_file].listening

InstInit ==
    /\ InitWindow
    /\ port = NoPort
    /\ inst = [p \in Procs |-> [pc |-> "idle", listening |-> FALSE, shown |-> 0]]
    /\ sock_file \in {NoFile, StaleFile}
    /\ removed_live = FALSE

\* main(): connectToServer and waitForConnected; when connected, "show" is
\* written, the running instance shows its window (_on_new_connection) and
\* this process returns.
main_probe(p) ==
    /\ inst[p].pc = "idle"
    /\ inst' = IF can_connect
               THEN [inst EXCEPT ![p].pc = "sent",
                                 ![sock_file].shown = @ + 1]
               ELSE [inst EXCEPT ![p].pc = "starting"]
    /\ UNCHANGED <<sock_file, removed_live, port>>
    /\ UNCHANGED window_vars

\* _setup_single_instance, the first listen: it fails when the file is
\* there, whoever made it.
listen_first(p) ==
    /\ inst[p].pc = "starting"
    /\ IF sock_file = NoFile
       THEN /\ sock_file' = p
            /\ inst' = [inst EXCEPT ![p].pc = "running", ![p].listening = TRUE]
       ELSE /\ sock_file' = sock_file
            /\ inst' = [inst EXCEPT ![p].pc = "listen_failed"]
    /\ UNCHANGED <<removed_live, port>>
    /\ UNCHANGED window_vars

\* _setup_single_instance, QLocalServer.removeServer(SOCKET_NAME): the file
\* is deleted.
remove_server(p) ==
    /\ inst[p].pc = "listen_failed"
    /\ sock_file' = NoFile
    /\ removed_live' = (removed_live \/ can_connect)
    /\ inst' = [inst EXCEPT ![p].pc = "removed"]
    /\ UNCHANGED port
    /\ UNCHANGED window_vars

\* _setup_single_instance, the second listen, whose result nobody looks at;
\* main() goes on to show_main_window and app.exec().
listen_again(p) ==
    /\ inst[p].pc = "removed"
    /\ IF sock_file = NoFile
       THEN /\ sock_file' = p
            /\ inst' = [inst EXCEPT ![p].pc = "running", ![p].listening = TRUE]
       ELSE /\ sock_file' = sock_file
            /\ inst' = [inst EXCEPT ![p].pc = "running"]
    /\ UNCHANGED <<removed_live, port>>
    /\ UNCHANGED window_vars

\* The Quit action of the tray: the server is closed and takes its own file
\* with it.
quit(p) ==
    /\ inst[p].pc = "running"
    /\ inst' = [inst EXCEPT ![p].pc = "gone", ![p].listening = FALSE]
    /\ sock_file' = IF sock_file = p THEN NoFile ELSE sock_file
    /\ UNCHANGED <<removed_live, port>>
    /\ UNCHANGED window_vars

\* The process is killed: its file stays behind.
killed(p) ==
    /\ inst[p].pc = "running"
    /\ inst' = [inst EXCEPT ![p].pc = "gone", ![p].listening = FALSE]
    /\ UNCHANGED <<sock_file, removed_live, port>>
    /\ UNCHANGED window_vars

InstNext ==
    \E p \in Procs :
        \/ main_probe(p)
        \/ listen_first(p)
        \/ remove_server(p)
        \/ listen_again(p)
        \/ quit(p)
        \/ killed(p)

SpecInst == InstInit /\ [][InstNext]_vars

Next ==
    \/ on_cpu_changed
    \/ on_cpu_online_toggled
    \/ on_min_spin_changed
    \/ on_max_spin_changed
    \/ on_governor_changed
    \/ on_energy_pref_changed
    \/ on_toall_toggled
    \/ on_energy_per_cpu_changed
    \/ on_refresh_clicked
    \/ on_profile_changed
    \/ on_apply_clicked
    \/ on_save_profile_clicked
    \/ on_delete_profile_clicked
    \/ _update_current_freq
    \/ on_apply_profile
    \/ cpu_hotplug

Spec == Init /\ [][Next]_vars

TypeOK ==
    /\ active \in CPUs
    /\ sock_file \in {NoFile, StaleFile} \cup Procs
    /\ removed_live \in BOOLEAN
    /\ \A p \in Procs : inst[p].shown \in 0 .. NumInstances
    /\ ops \in 0 .. MaxOps
    /\ pass.kind \in {"none", "denied", "done", "fault"}

\* ------------------------------------------------------------ properties
\* The helper calls of the most recent Apply.
Calls == {pass.calls[i] : i \in DOMAIN pass.calls}
Failed == {c \in Calls : ~c.raised /\ c.val # 0}
Raised == {c \in Calls : c.raised}

\* The loop of an authorized Apply ran (to its end, or to a raised error).
PassRan == pass.kind \in {"done", "fault"} /\ pass.auth = "yes"
\* The handler returned normally from an authorized Apply.
PassDone == pass.kind = "done"

PreChanged(cpu) == changed(pass.pre.settings[cpu])
PreTarget(cpu) == pass.pre.settings[cpu].cur

\* C1: in an apply pass no frequency, governor or energy-preference call is
\* issued for a changed CPU whose target is offline, whichever of those
\* fields differ from the baseline.
C1_OfflineGating ==
    PassRan =>
        \A c \in Calls : c.op \in WriteOps => PreTarget(c.cpu).online

\* A pass ran over a changed CPU whose target was offline and whose
\* frequencies, governor or energy preference differed from the baseline,
\* and issued no write for it.
C1_Witness ==
    /\ PassDone
    /\ \E cpu \in CPUs :
          /\ ~PreTarget(cpu).online
          /\ \E name \in {"freqs", "governor", "energy_pref"} :
                 setting_changed(pass.pre.settings[cpu], name)
          /\ ~\E c \in Calls : c.cpu = cpu /\ c.op \in WriteOps

\* C2: no frequency, governor or energy-preference call is issued for a CPU
\* that is offline in live hardware at the moment of the call, also when its
\* set_cpu_online call in the same pass returned non-zero.
C2_NoWriteWhileLiveOffline ==
    PassRan => \A c \in Calls : c.op \in WriteOps => c.live

\* C3: mutating calls are issued only for CPUs that were changed when the
\* pass started; with no changed CPU the pass issues no call, its result is
\* 0 and it shows no error.
C3_OnlyChangedCpus ==
    PassRan =>
        /\ \A c \in Calls : PreChanged(c.cpu)
        /\ (\A cpu \in CPUs : ~PreChanged(cpu)) =>
               /\ pass.calls = <<>>
               /\ pass.ret = 0
               /\ pass.message = ""
               /\ ~fault

\* A pass ran with no changed CPU although the live state of an unchanged
\* CPU disagreed with its target.
C3_Witness ==
    /\ PassDone
    /\ \A cpu \in CPUs : ~PreChanged(cpu)
    /\ \E cpu \in CPUs : pass.pre.hw[cpu].online # PreTarget(cpu).online
    /\ pass.calls = <<>>

\* The code the table gives for a set of failed dimensions.
CodeOf(dims) ==
    CASE dims = {"update_cpu_governor"} -> -11
      [] dims = {"update_cpu_energy_prefs"} -> -12
      [] dims = {"update_cpu_settings"} -> -13
      [] dims = {"update_cpu_governor", "update_cpu_energy_prefs"} -> -23
      [] dims = {"update_cpu_governor", "update_cpu_settings"} -> -24
      [] dims = {"update_cpu_settings", "update_cpu_energy_prefs"} -> -25
      [] OTHER -> 0

FailedOps == {c.op : c \in Failed}
FailedCpus == {c.cpu : c \in Failed}

\* C4: when one or two of the dimensions governor, energy preference and
\* frequencies fail on one changed CPU and nothing else fails in the pass,
\* the result is the table's code for that set (-11, -12, -13, -23, -24,
\* -25) and the message shown is the table entry for it.
C4_CompositeCodes ==
    (/\ PassDone
     /\ Cardinality(FailedCpus) = 1
     /\ FailedOps \subseteq WriteOps
     /\ Cardinality(FailedOps) \in {1, 2}) =>
        /\ pass.ret = CodeOf(FailedOps)
        /\ pass.message = ERRORS[CodeOf(FailedOps)]

\* Governor and frequencies failed together on one CPU.
C4_Witness ==
    /\ PassDone
    /\ Cardinality(FailedCpus) = 1
    /\ FailedOps = {"update_cpu_governor", "update_cpu_settings"}
    /\ pass.ret = -24
    /\ pass.message = "Setting governor and frequencies failed."

\* C5: whenever the message shown is one of the six table entries, the set
\* of dimensions that failed anywhere in the pass is exactly the set the
\* entry names; every other combination of failures is reported as the
\* unknown error.
C5_MessageNamesFailures ==
    PassDone =>
        /\ \A code \in DOMAIN ERRORS :
               pass.message = ERRORS[code] => CodeOf(FailedOps) = code
        /\ (Failed # {} /\ CodeOf(FailedOps) = 0) => pass.message = UnknownError

\* C6: the result is 0 (no error shown) only if every helper write attempted
\* in the pass, transitions included, returned 0; if any call returned
\* non-zero the result is non-zero and an error is shown.
C6_ZeroMeansAllSucceeded ==
    PassDone =>
        /\ pass.ret = 0 => Failed = {}
        /\ Failed # {} => (pass.ret # 0 /\ pass.message # "")

\* The calls a pass makes, from what it found at its start alone.
PlannedFor(cpu) ==
    LET conf == pass.pre.settings[cpu]
        live == pass.pre.hw[cpu].online
        trans == IF ~live /\ conf.cur.online THEN <<"set_cpu_online">>
                 ELSE IF live /\ ~conf.cur.online /\ cpu_allowed_offline(cpu)
                 THEN <<"set_cpu_offline">> ELSE <<>>
        wr(name, op) == IF conf.cur.online /\ conf.cur[name] # conf.baseline[name]
                        THEN <<op>> ELSE <<>>
        plan == trans \o wr("freqs", "update_cpu_settings")
                     \o wr("governor", "update_cpu_governor")
                     \o (IF energy_pref_avail
                         THEN wr("energy_pref", "update_cpu_energy_prefs") ELSE <<>>)
    IN  [i \in DOMAIN plan |-> <<cpu, plan[i]>>]

RECURSIVE PlannedFrom(_)
PlannedFrom(cpu) ==
    IF cpu \notin CPUs THEN <<>>
    ELSE (IF PreChanged(cpu) THEN PlannedFor(cpu) ELSE <<>>) \o PlannedFrom(cpu + 1)

Issued == [i \in DOMAIN pass.calls |-> <<pass.calls[i].cpu, pass.calls[i].op>>]

\* C7: a non-zero result does not stop the pass: the remaining dimensions of
\* the CPU and the remaining changed CPUs are still attempted, so the calls
\* issued do not depend on the results of earlier calls.
C7_FailureDoesNotStopPass ==
    (PassRan /\ Raised = {}) => Issued = PlannedFrom(0)

\* A call failed and calls for the same CPU and for a later CPU followed.
C7_Witness ==
    /\ PassDone
    /\ \E i, j, k \in DOMAIN pass.calls :
          /\ i < j /\ j < k
          /\ pass.calls[i].val # 0
          /\ pass.calls[j].cpu = pass.calls[i].cpu
          /\ pass.calls[k].cpu # pass.calls[i].cpu

\* C8: a helper call that raises is treated as a failure of that CPU: the
\* fault does not leave the apply operation, every CPU is still refreshed
\* and the result is non-zero.
C8_RaiseIsContained ==
    (PassRan /\ Raised # {}) =>
        /\ ~fault
        /\ pass.ret # 0
        /\ Issued = PlannedFrom(0)
        /\ \A cpu \in CPUs : settings[cpu] = update_conf(hw[cpu])

\* C9: when isauthorized() returns false, Apply shows the permission error
\* and returns: no mutating call, no CpuSettings refreshed or replaced, the
\* selected profile and the apply-to-all toggle as before.
C9_UnauthorizedChangesNothing ==
    pass.auth = "no" =>
        /\ pass.message = PermissionError
        /\ pass.calls = <<>>
        /\ hw = pass.pre.hw
        /\ settings = pass.pre.settings
        /\ profile = pass.pre.profile
        /\ toall = pass.pre.toall
        /\ toall_enabled = pass.pre.toall_enabled
        /\ ~fault

\* Apply was refused while a profile was selected and a CPU had pending
\* edits.
C9_Witness ==
    /\ pass.auth = "no"
    /\ pass.message = PermissionError
    /\ profile # None
    /\ \E cpu \in CPUs : changed(settings[cpu])

\* C10: after every authorized apply pass, whatever its result, every CPU of
\* the settings map has been re-read: its editable fields and its baseline
\* equal the live hardware state at the end of the pass.
C10_RefreshedAfterApply ==
    PassDone =>
        \A cpu \in CPUs :
            /\ settings[cpu].cur = read_hw(hw[cpu])
            /\ settings[cpu].baseline = read_hw(hw[cpu])

\* A pass with a failed write ended: the failed CPU and a CPU that was not
\* changed (and whose baseline was stale) are both re-read.
C10_Witness ==
    /\ PassDone
    /\ pass.ret # 0
    /\ \E cpu \in CPUs :
          /\ ~PreChanged(cpu)
          /\ pass.pre.settings[cpu].baseline # read_hw(pass.pre.hw[cpu])
          /\ settings[cpu].baseline = read_hw(hw[cpu])
    /\ \E cpu \in CPUs :
          /\ PreChanged(cpu)
          /\ settings[cpu].cur # PreTarget(cpu)
          /\ settings[cpu].cur = read_hw(hw[cpu])

\* ------------------------------------------------- after a failed write
\* The CPUs for which a frequency, governor or energy-preference write of
\* the most recent Apply failed, and those whose calls all succeeded.
WriteFailedCpus == {c.cpu : c \in {f \in Failed : f.op \in WriteOps}}
SucceededCpus == {c.cpu : c \in Calls} \ FailedCpus

\* C11: after an apply pass in which a write failed for a CPU, that CPU is
\* still changed, every CPU whose writes all succeeded is unchanged, and the
\* Apply button is enabled, so the pass can be repeated without editing again.
C11_FailedCpuStaysChanged ==
    (PassDone /\ WriteFailedCpus # {}) =>
        /\ \A cpu \in WriteFailedCpus : changed(settings[cpu])
        /\ \A cpu \in SucceededCpus : ~changed(settings[cpu])
        /\ apply_btn

\* ----------------------------------------------------------- edit scope
FreqEdits == {"on_min_spin_changed", "on_max_spin_changed"}
OtherCpus == CPUs \ {active}

\* C12: with apply-to-all off, a governor or frequency edit changes only the
\* active CPU's CpuSettings (every other CPU's fields, baseline and changed
\* status stay as they were); with apply-to-all on, a governor edit sets the
\* chosen governor on every CpuSettings.
C12_EditScope ==
    /\ (last.op \in FreqEdits \cup {"on_governor_changed"} /\ ~last.pre.toall) =>
           \A cpu \in OtherCpus : settings[cpu] = last.pre.settings[cpu]
    /\ (last.op = "on_governor_changed" /\ last.pre.toall) =>
           \A cpu \in CPUs : settings[cpu].cur.governor = last.arg

\* With apply-to-all off a frequency edit changed the active CPU and left
\* alone another CPU that had pending edits of its own.
C12_Witness ==
    /\ last.op \in FreqEdits
    /\ ~last.pre.toall
    /\ settings[active].cur.freqs # last.pre.settings[active].cur.freqs
    /\ \E cpu \in OtherCpus :
          /\ changed(settings[cpu])
          /\ settings[cpu] = last.pre.settings[cpu]

\* The frequencies of CPU from, as CPU cpu can hold them.
FreqsWithin(cpu, from) == set_freqs(settings[cpu], cpu, settings[from].cur.freqs).cur.freqs

\* C13: while apply-to-all is on, after a single frequency, governor or
\* online-checkbox edit on the active CPU every other CpuSettings has the
\* active CPU's governor and online value and its frequencies (inside the
\* CPU's own hardware limits).
C13_BroadcastKeepsCpusEqual ==
    (/\ last.op \in FreqEdits \cup {"on_governor_changed", "on_cpu_online_toggled"}
     /\ last.pre.toall) =>
        \A cpu \in OtherCpus :
            /\ settings[cpu].cur.governor = settings[active].cur.governor
            /\ settings[cpu].cur.online = settings[active].cur.online
            /\ settings[cpu].cur.freqs = FreqsWithin(cpu, active)

\* C14: an energy-preference edit sets the chosen preference on every CPU
\* when the energy scope is global and on the active CPU alone when the scope
\* is per-CPU, and in both cases apply-to-all makes no difference.
C14_EnergyScope ==
    last.op = "on_energy_pref_changed" =>
        /\ settings[active].cur.energy_pref = last.arg
        /\ \A cpu \in OtherCpus :
               IF energy_per_cpu
               THEN settings[cpu] = last.pre.settings[cpu]
               ELSE /\ settings[cpu].cur.energy_pref = last.arg
                    /\ settings[cpu] = set_energy_pref(last.pre.settings[cpu], last.arg)

\* With apply-to-all on and the per-CPU scope, an energy-preference edit
\* changed the active CPU alone.
C14_Witness ==
    /\ last.op = "on_energy_pref_changed"
    /\ toall
    /\ energy_per_cpu
    /\ settings[active].cur.energy_pref = last.arg
    /\ \A cpu \in OtherCpus : settings[cpu].cur.energy_pref # last.arg

\* C15: the apply-to-all broadcast never copies the energy preference: with
\* the per-CPU energy scope, switching apply-to-all on, or a frequency,
\* governor or online edit made under it, leaves the energy preference of
\* every CPU other than the active one as it was.
C15_BroadcastSkipsEnergyPref ==
    (/\ energy_per_cpu
     /\ \/ last.op = "on_toall_toggled" /\ toall
        \/ /\ last.op \in FreqEdits \cup {"on_governor_changed", "on_cpu_online_toggled"}
           /\ last.pre.toall) =>
        \A cpu \in OtherCpus :
            settings[cpu].cur.energy_pref = last.pre.settings[cpu].cur.energy_pref

\* ------------------------------------------------------ frequency bounds
\* C16: after any sequence of frequency edits, apply-to-all toggles and
\* broadcasts, profile recalls and refreshes, every CpuSettings has
\* hwMin <= freqMin <= freqMax <= hwMax for its own CPU's limits, also when
\* the values were entered within the active CPU's limits and broadcast to a
\* CPU with other limits.
C16_FreqsWithinOwnLimits ==
    \A cpu \in CPUs :
        /\ hw_lims(cpu)[1] <= settings[cpu].cur.freqs[1]
        /\ settings[cpu].cur.freqs[1] <= settings[cpu].cur.freqs[2]
        /\ settings[cpu].cur.freqs[2] <= hw_lims(cpu)[2]

\* A minimum entered for the active CPU under apply-to-all lay above the
\* limits of another CPU, which stored its own maximum for both bounds.
C16_Witness ==
    /\ last.op = "on_min_spin_changed"
    /\ last.pre.toall
    /\ settings[active].cur.freqs[1] = last.arg
    /\ \E cpu \in OtherCpus :
          /\ last.arg > hw_lims(cpu)[2]
          /\ settings[cpu].cur.freqs = <<hw_lims(cpu)[2], hw_lims(cpu)[2]>>

\* C17: when a frequency edit would leave min > max, the bound the user just
\* edited keeps the requested value and the other bound is moved: a minimum
\* raised above the maximum raises the maximum, a maximum lowered below the
\* minimum lowers the minimum.
C17_EditedBoundWins ==
    /\ (/\ last.op = "on_min_spin_changed"
        /\ last.arg > last.pre.settings[active].cur.freqs[2]) =>
           /\ settings[active].cur.freqs[1] = last.arg
           /\ settings[active].cur.freqs[2] >= last.arg
    /\ (/\ last.op = "on_max_spin_changed"
        /\ last.arg < last.pre.settings[active].cur.freqs[1]) =>
           /\ settings[active].cur.freqs[2] = last.arg
           /\ settings[active].cur.freqs[1] <= last.arg

\* -------------------------------------------------------- profile recall
\* The CPUs a profile mentions, and the CpuSettings CPU cpu has when only
\* its own entry of the profile is recalled over what the handler found.
Mentioned(name) == DOMAIN profiles[name]
RecalledAlone(name, cpu) ==
    recall_cpus(load_cpu_settings(last.pre.settings, last.pre.hw),
                profiles[name], <<cpu>>)[cpu]

\* C18: profile recall switches apply-to-all off before it writes a profile
\* value, so every CPU gets the values of its own profile entry and none of
\* another CPU's, and the toggle stays off (and disabled) for as long as the
\* profile remains selected.
C18_RecallTurnsBroadcastOff ==
    /\ profile # None => (~toall /\ ~toall_enabled)
    /\ (last.op = "on_profile_changed" /\ profile # None) =>
           \A cpu \in Mentioned(profile) : settings[cpu] = RecalledAlone(profile, cpu)

\* A profile with different values per CPU was recalled while apply-to-all
\* was on.
C18_Witness ==
    /\ last.op = "on_profile_changed"
    /\ profile # None
    /\ last.pre.toall
    /\ ~toall
    /\ \E c1, c2 \in Mentioned(profile) :
          settings[c1].cur.governor # settings[c2].cur.governor

\* C19: profile recall leaves every CPU the profile does not mention exactly
\* as it was: editable fields (pending edits included), baseline and changed
\* status are neither modified nor reset.
C19_UnmentionedCpusUntouched ==
    (last.op = "on_profile_changed" /\ profile # None) =>
        \A cpu \in CPUs \ Mentioned(profile) :
            settings[cpu] = last.pre.settings[cpu]

\* The CpuSettings the recall loop finds for CPU cpu.
HeldAtRecall(cpu) == load_cpu_settings(last.pre.settings, last.pre.hw)[cpu]

C22_NoProfileRestoresBaseline ==
    (last.op = "on_profile_changed" /\ profile = None) =>
        /\ \A cpu \in CPUs :
              /\ settings[cpu].cur = settings[cpu].baseline
              /\ settings[cpu].baseline = read_hw(last.pre.hw[cpu])
              /\ ~changed(settings[cpu])
        /\ ~apply_btn
        /\ toall_enabled

\* A profile had been recalled, which left a CPU changed, Apply enabled and
\* the toggle disabled; "No profile" was selected next.
C22_Witness ==
    /\ last.op = "on_profile_changed"
    /\ profile = None
    /\ last.pre.profile # None
    /\ is_conf_changed(last.pre.settings)
    /\ last.pre.apply_btn
    /\ ~last.pre.toall_enabled
    /\ ~is_conf_changed(settings)
    /\ ~apply_btn
    /\ toall_enabled

C24_TimerOnlyDisplays ==
    last.op = "_update_current_freq" =>
        /\ hw = last.pre.hw
        /\ settings = last.pre.settings
        /\ toall = last.pre.toall
        /\ toall_enabled = last.pre.toall_enabled
        /\ energy_per_cpu = last.pre.energy_per_cpu
        /\ active = last.pre.active
        /\ profile = last.pre.profile
        /\ store = last.pre.store
        /\ apply_btn = last.pre.apply_btn

\* The timer fired while a CPU had a pending edit and a stale baseline: the
\* column shows new values and the edit is still pending.
C24_Witness ==
    /\ last.op = "_update_current_freq"
    /\ current_freq # last.pre.current_freq
    /\ \E cpu \in CPUs :
          /\ changed(settings[cpu])
          /\ settings[cpu].baseline # read_hw(hw[cpu])
    /\ apply_btn

\* ------------------------------------------------------------- C25
\* The handlers that edit one field of the active CPU, and the field.
EditOps == {"on_min_spin_changed", "on_max_spin_changed", "on_governor_changed",
            "on_energy_pref_changed", "on_cpu_online_toggled"}

FieldOf(fields, op) ==
    CASE op = "on_min_spin_changed"    -> fields.freqs[1]
      [] op = "on_max_spin_changed"    -> fields.freqs[2]
      [] op = "on_governor_changed"    -> fields.governor
      [] op = "on_energy_pref_changed" -> fields.energy_pref
      [] op = "on_cpu_online_toggled"  -> fields.online

\* The value the user entered in the most recent edit.
Entered ==
    IF last.op = "on_cpu_online_toggled"
    THEN ~last.pre.settings[active].cur.online
    ELSE last.arg

\* The CPUs the most recent handler read anew from the hardware.
Refreshed ==
    CASE last.op = "none"               -> CPUs
      [] last.op = "on_refresh_clicked" -> IF toall THEN CPUs ELSE {active}
      [] last.op = "on_apply_clicked"   -> IF PassDone THEN CPUs ELSE {}
      [] last.op = "on_apply_profile"   -> CPUs
      [] OTHER                          -> {}

\* An edit that gives one field of an unchanged CPU another value makes the
\* CPU changed and enables Apply; entering the baseline value into the only
\* field that differs from it makes the CPU unchanged and, when no other CPU
\* is changed, disables Apply.
EditsFollowBaseline ==
    last.op \in EditOps =>
        LET was == last.pre.settings[active]
            now == settings[active]
            others == EditOps \ {last.op}
        IN  /\ (/\ ~changed(was)
                /\ FieldOf(now.cur, last.op) # FieldOf(was.cur, last.op))
                  => changed(now) /\ apply_btn
            /\ (/\ FieldOf(was.cur, last.op) # FieldOf(was.baseline, last.op)
                /\ \A o \in others : FieldOf(was.cur, o) = FieldOf(was.baseline, o)
                /\ Entered = FieldOf(was.baseline, last.op))
                  => /\ ~changed(now)
                     /\ (\A c \in OtherCpus : ~changed(settings[c])) => ~apply_btn

OpRank(op) ==
    CASE op \in TransitionOps            -> 1
      [] op = "update_cpu_settings"     -> 2
      [] op = "update_cpu_governor"     -> 3
      [] op = "update_cpu_energy_prefs" -> 4

\* C26: the helper calls of a pass are made one after the other in a fixed
\* order: CPU by CPU in the order of the settings map, every call for one
\* CPU before any call for the next, and for one CPU the transition first,
\* then the frequencies, then the governor, then the energy preference,
\* each at most once.
C26_CallOrder ==
    PassRan =>
        \A i, j \in DOMAIN pass.calls :
            i < j =>
                \/ pass.calls[i].cpu < pass.calls[j].cpu
                \/ /\ pass.calls[i].cpu = pass.calls[j].cpu
                   /\ OpRank(pass.calls[i].op) < OpRank(pass.calls[j].op)

\* A pass made calls for two CPUs, all four kinds of call for one of them.
C26_Witness ==
    /\ PassDone
    /\ Cardinality({c.cpu : c \in Calls}) >= 2
    /\ \E cpu \in CPUs :
          {OpRank(c.op) : c \in {d \in Calls : d.cpu = cpu}} = 1 .. 4

\* ------------------------------------------------------------- C27
\* The CPUs whose offline request the pass passed over: changed, target
\* offline, online in the hardware, and not allowed to go offline.
OfflineSkipped ==
    {cpu \in CPUs : /\ PreChanged(cpu)
                    /\ ~PreTarget(cpu).online
                    /\ pass.pre.hw[cpu].online
                    /\ ~cpu_allowed_offline(cpu)}

\* C27: set_cpu_offline is never issued for a CPU that is not allowed to go
\* offline, however its target came to be offline; the pass makes no call
\* at all for such a CPU, and the request passed over adds nothing to the
\* result: a pass whose calls all returned 0 ends with result 0 and no
\* error message.
C27_DisallowedOfflineSkipped ==
    PassRan =>
        /\ \A c \in Calls : c.op = "set_cpu_offline" => cpu_allowed_offline(c.cpu)
        /\ \A cpu \in OfflineSkipped : \A c \in Calls : c.cpu # cpu
        /\ (PassDone /\ Failed = {}) => (pass.ret = 0 /\ pass.message = "")

\* The apply-to-all copy gave CPU 0, which must stay online, the target
\* offline; the pass made no call for it and ended with result 0.
C27_Witness ==
    /\ PassDone
    /\ 0 \in OfflineSkipped
    /\ pass.pre.toall
    /\ pass.ret = 0
    /\ pass.message = ""
    /\ hw[0].online

\* ------------------------------------------------------------- C28
\* The transition calls the pass made for a CPU.
TransitionsFor(cpu) == {c \in Calls : c.cpu = cpu /\ c.op \in TransitionOps}

\* C28: a transition is requested only when the live state disagrees with
\* the target: set_cpu_online only for a CPU that is offline in the hardware
\* and whose target is online, set_cpu_offline only for one that is online
\* and whose target is offline; a changed CPU that the hardware already has
\* in the target state gets no transition call.
C28_TransitionOnlyOnDisagreement ==
    PassRan =>
        /\ \A c \in Calls :
              /\ c.op = "set_cpu_online"
                    => (~c.live /\ PreTarget(c.cpu).online)
              /\ c.op = "set_cpu_offline"
                    => (c.live /\ ~PreTarget(c.cpu).online)
        /\ \A cpu \in CPUs :
              (PreChanged(cpu) /\ pass.pre.hw[cpu].online = PreTarget(cpu).online)
                  => TransitionsFor(cpu) = {}

\* A CPU's target differed from its baseline in the online state, but the
\* hardware had moved to the target by itself before the pass: no
\* transition was requested for it.
C28_Witness ==
    /\ PassDone
    /\ \E cpu \in CPUs :
          /\ setting_changed(pass.pre.settings[cpu], "online")
          /\ pass.pre.hw[cpu].online = PreTarget(cpu).online
          /\ TransitionsFor(cpu) = {}

\* ------------------------------------------------------------- C29
\* The setting a write call carries.
DimOf(op) ==
    CASE op = "update_cpu_settings"     -> "freqs"
      [] op = "update_cpu_governor"     -> "governor"
      [] op = "update_cpu_energy_prefs" -> "energy_pref"

\* The pass made the write call op for the CPU.
Wrote(cpu, op) == \E c \in Calls : c.cpu = cpu /\ c.op = op

\* C29: for a changed CPU whose target is online, a pass that ran to its
\* end made the frequency, governor and energy-preference write exactly
\* when that setting differed from the baseline (the energy preference only
\* where the feature exists); no pass, finished or not, made a write for a
\* setting that did not differ.
C29_WritesExactlyWhenDiffers ==
    /\ PassRan =>
          \A c \in Calls :
              c.op \in WriteOps =>
                  /\ PreTarget(c.cpu).online
                  /\ setting_changed(pass.pre.settings[c.cpu], DimOf(c.op))
    /\ PassDone =>
          \A cpu \in CPUs :
              (PreChanged(cpu) /\ PreTarget(cpu).online) =>
                  \A op \in WriteOps :
                      Wrote(cpu, op) <=>
                          /\ setting_changed(pass.pre.settings[cpu], DimOf(op))
                          /\ (op = "update_cpu_energy_prefs" => energy_pref_avail)

\* A CPU was changed in its governor and not in its frequencies: the pass
\* wrote the governor and left the frequencies alone.
C29_Witness ==
    /\ PassDone
    /\ \E cpu \in CPUs :
          /\ PreTarget(cpu).online
          /\ setting_changed(pass.pre.settings[cpu], "governor")
          /\ ~setting_changed(pass.pre.settings[cpu], "freqs")
          /\ Wrote(cpu, "update_cpu_governor")
          /\ ~Wrote(cpu, "update_cpu_settings")

\* ------------------------------------------------------------- C30
\* C30: between handlers the Apply button is enabled exactly when at least
\* one CpuSettings is changed: after every edit, toggle, profile selection,
\* refresh, apply pass (whatever its result) and profile application from
\* the tray.
C30_ApplyTracksChanged == apply_btn <=> is_conf_changed(settings)

\* A pass in which a helper call failed has ended: Apply, enabled before
\* it, is disabled, and after the refresh no CPU is changed.
C30_Witness ==
    /\ PassDone
    /\ Failed # {}
    /\ pass.pre.apply_btn
    /\ is_conf_changed(pass.pre.settings)
    /\ ~apply_btn
    /\ ~is_conf_changed(settings)

\* ------------------------------------------------------------- C31
\* C31: the apply-to-all toggle is disabled exactly when a profile is
\* selected in profile_combo; after a profile was saved or deleted, which
\* puts the selector back on "No profile", and after an apply pass, the
\* toggle is enabled.
C31_ToggleDisabledIffProfile ==
    /\ ~toall_enabled <=> profile # None
    /\ last.op \in {"on_save_profile_clicked", "on_delete_profile_clicked"}
          => (profile = None /\ toall_enabled)
    /\ PassDone => (profile = None /\ toall_enabled)

\* ------------------------------------------------------------- C32
\* The hardware holds the target of the CPU's settings: the online state
\* and, for a target that is online, the frequencies, the governor and the
\* energy preference.
LiveEqualsTarget(h, target) ==
    /\ h.online = target.online
    /\ target.online =>
          /\ h.freqs = <<target.freqs[1] * 1000, target.freqs[2] * 1000>>
          /\ h.governor = target.governor
          /\ h.energy_pref = target.energy_pref

\* C32: when an apply pass ends with result 0, the hardware after the pass
\* holds, for every CPU that was changed when the pass started, the target
\* the user had set; a CPU whose offline request was passed over as not
\* allowed is among them.
C32_SuccessMeansTargetReached ==
    (PassDone /\ pass.ret = 0) =>
        \A cpu \in CPUs :
            PreChanged(cpu) => LiveEqualsTarget(hw[cpu], PreTarget(cpu))

\* ------------------------------------------------------------- C33
\* The processes that run the tray and the event loop.
Running == {p \in Procs : inst[p].pc = "running"}

\* C33: at most one process of the application runs the tray and the event
\* loop, however two start-ups interleave, and the clean-up of a stale
\* socket never deletes the socket file of a process that is listening.
C33_SingleInstance ==
    /\ Cardinality(Running) <= 1
    /\ ~removed_live


\* ------------------------------------------------------------- C34
\* C34: every profile applied from the tray menu is in the profile store
\* when it is applied; after a profile was saved or deleted in the window,
\* the tray menu offers the saved profile and does not offer the deleted one.
C34_TrayFollowsStore ==
    /\ last.op = "on_apply_profile" => last.arg \in DOMAIN last.pre.store
    /\ last.op = "on_save_profile_clicked" => last.arg \in DOMAIN tray_profiles
    /\ last.op = "on_delete_profile_clicked" =>
          last.arg \notin DOMAIN tray_profiles

====
